---- MODULE Spec2Model ----
(***************************************************************************)
(* Model of scripts/mongo_x_neo4j/neo4j_relationalizer.py: the text        *)
(* normalizer, the ingredient splitter, the tag cleaner and the row        *)
(* generator generate_csv_data with its dedup ledger, and the __main__     *)
(* caller.                                                                 *)
(*                                                                         *)
(* Python str values are TLA+ strings.  The text functions look at single  *)
(* characters, so they work on the tuple of one-character strings C(s) and *)
(* give back the string S(..) of the resulting tuple.                      *)
(***************************************************************************)
EXTENDS Integers, Sequences, FiniteSets, TLC

\* ------------------------------------------------------------------------
\* Representation of Python values
\* ------------------------------------------------------------------------

\* The characters of a str, one by one.
C(s) == [i \in 1..Len(s) |-> SubSeq(s, i, i)]

\* The str made of a tuple of characters.
RECURSIVE S(_)
S(cs) == IF cs = <<>> THEN "" ELSE Head(cs) \o S(Tail(cs))

\* A loosely typed field value of a source document: t is the Python type,
\* v the payload (a string for str, a tuple of values for list).
Str(s)   == [t |-> "str",  v |-> s]
List(l)  == [t |-> "list", v |-> l]
None     == [t |-> "none", v |-> ""]
IntVal(n) == [t |-> "int", v |-> n]
\* A key the document does not have (dict.get falls back to its default).
Absent   == [t |-> "absent", v |-> ""]

\* Python truthiness of a value ("if not x").
Truthy(x) ==
    CASE x.t = "str"  -> x.v # ""
      [] x.t = "list" -> x.v # <<>>
      [] x.t = "int"  -> x.v # 0
      [] OTHER        -> FALSE

\* dict.get(key) / dict.get(key, default) on a document.
Get(doc, key) == IF doc[key].t = "absent" THEN None ELSE doc[key]
GetDefault(doc, key, default) == IF doc[key].t = "absent" THEN default ELSE doc[key]

\* ------------------------------------------------------------------------
\* Character classes of Python's re and str methods
\* ------------------------------------------------------------------------

LowerLetters == C("abcdefghijklmnopqrstuvwxyz")
UpperLetters == C("ABCDEFGHIJKLMNOPQRSTUVWXYZ")
DigitChars   == {"0", "1", "2", "3", "4", "5", "6", "7", "8", "9"}
\* \s and str.strip(): blank, tab, newline, carriage return, form feed, vertical tab
SpaceChars   == {" ", "\t", "\n", "\r", "\f"}

Range(f) == {f[i] : i \in DOMAIN f}

isSpace(c) == c \in SpaceChars
isDigit(c) == c \in DigitChars
\* \w on str patterns: letters, digits and the underscore
isWord(c)  == c \in Range(LowerLetters) \cup Range(UpperLetters) \cup DigitChars \cup {"_"}

\* str.lower() on one character
lowerChar(c) ==
    IF \E i \in DOMAIN UpperLetters : UpperLetters[i] = c
    THEN LowerLetters[CHOOSE i \in DOMAIN UpperLetters : UpperLetters[i] = c]
    ELSE IF c = "É" THEN "é" ELSE c

lower(cs) == [i \in DOMAIN cs |-> lowerChar(cs[i])]

\* str.strip(): drop leading and trailing whitespace
RECURSIVE lstrip(_)
lstrip(cs) == IF cs # <<>> /\ isSpace(Head(cs)) THEN lstrip(Tail(cs)) ELSE cs

RECURSIVE rstrip(_)
rstrip(cs) ==
    IF cs # <<>> /\ isSpace(cs[Len(cs)]) THEN rstrip(SubSeq(cs, 1, Len(cs) - 1)) ELSE cs

strip(cs) == rstrip(lstrip(cs))

\* Index of the first position >= i of cs whose character satisfies no P,
\* Len(cs)+1 when the run reaches the end: the end of a greedy \s* or \d+.
RECURSIVE SkipSpace(_, _)
SkipSpace(cs, i) == IF i <= Len(cs) /\ isSpace(cs[i]) THEN SkipSpace(cs, i + 1) ELSE i

RECURSIVE SkipDigits(_, _)
SkipDigits(cs, i) == IF i <= Len(cs) /\ isDigit(cs[i]) THEN SkipDigits(cs, i + 1) ELSE i

\* cs has the characters of pat at position i
HasAt(cs, i, pat) ==
    /\ i >= 1
    /\ i + Len(pat) - 1 <= Len(cs)
    /\ \A k \in 1..Len(pat) : cs[i + k - 1] = pat[k]

\* str.split(sep): the pieces of cs between the occurrences of sep, found
\* from the left without overlap
FirstAt(cs, sep) ==
    IF \E i \in 1..Len(cs) : HasAt(cs, i, sep)
    THEN CHOOSE i \in 1..Len(cs) : HasAt(cs, i, sep) /\ \A j \in 1..(i - 1) : ~HasAt(cs, j, sep)
    ELSE 0

RECURSIVE strSplit(_, _)
strSplit(cs, sep) ==
    LET i == FirstAt(cs, sep)
    IN  IF i = 0 THEN <<cs>>
        ELSE <<SubSeq(cs, 1, i - 1)>> \o strSplit(SubSeq(cs, i + Len(sep), Len(cs)), sep)

\* ------------------------------------------------------------------------
\* Text Normalizer
\* ------------------------------------------------------------------------

\* U+201C, the third character of the separator of line 103.  The TLA+
\* lexer rejects that character in a string, so the model writes it as the
\* character below, which no input uses for anything else.
LeftDoubleQuote == "«"

\* unidecode(): ASCII transliteration of one character.  ASCII is kept; the
\* entries are the library's for the non-ASCII characters the inputs use.
unidecodeChar(c) ==
    CASE c = "é" -> <<"e">>
      [] c = "â" -> <<"a">>
      [] c = "ß" -> <<"s", "s">>
      [] c = "€" -> <<"E", "U", "R">>
      [] c = LeftDoubleQuote -> <<"\"">>
      [] OTHER   -> <<c>>

RECURSIVE unidecode(_)
unidecode(cs) == IF cs = <<>> THEN <<>> ELSE unidecodeChar(Head(cs)) \o unidecode(Tail(cs))

isOpenBracket(c)  == c \in {"(", "["}
isCloseBracket(c) == c \in {")", "]"}

\* re.sub(r'[\(\[].*?[\)\]]', '', name): from the leftmost opening bracket
\* to the nearest closing bracket after it; '.' does not match a newline,
\* so a span that would cross one is no match and the opener stays.
RECURSIVE RemoveBracketed(_, _)
RemoveBracketed(cs, i) ==
    IF i > Len(cs) THEN <<>>
    ELSE IF isOpenBracket(cs[i]) /\ \E j \in (i + 1)..Len(cs) :
                                       /\ isCloseBracket(cs[j])
                                       /\ \A k \in (i + 1)..(j - 1) :
                                             ~isCloseBracket(cs[k]) /\ cs[k] # "\n"
         THEN LET j == CHOOSE j \in (i + 1)..Len(cs) :
                          /\ isCloseBracket(cs[j])
                          /\ \A k \in (i + 1)..(j - 1) : ~isCloseBracket(cs[k])
              IN  RemoveBracketed(cs, j + 1)
         ELSE <<cs[i]>> \o RemoveBracketed(cs, i + 1)

\* re.sub(r'[^\w\s-]', '', name)
RECURSIVE KeepWordSpaceHyphen(_)
KeepWordSpaceHyphen(cs) ==
    IF cs = <<>> THEN <<>>
    ELSE IF isWord(Head(cs)) \/ isSpace(Head(cs)) \/ Head(cs) = "-"
         THEN <<Head(cs)>> \o KeepWordSpaceHyphen(Tail(cs))
         ELSE KeepWordSpaceHyphen(Tail(cs))

\* re.sub(r'\s+', ' ', name)
RECURSIVE CollapseSpace(_, _)
CollapseSpace(cs, i) ==
    IF i > Len(cs) THEN <<>>
    ELSE IF isSpace(cs[i]) THEN <<" ">> \o CollapseSpace(cs, SkipSpace(cs, i))
         ELSE <<cs[i]>> \o CollapseSpace(cs, i + 1)

\* normalize_ingredient_name on the characters of a non-empty name
normalizeChars(cs) ==
    strip(CollapseSpace(KeepWordSpaceHyphen(RemoveBracketed(unidecode(lower(cs)), 1)), 1))

\* normalize_ingredient_name(name): Str(normalized name) or None
normalize_ingredient_name(name) ==
    IF name = "" THEN None
    ELSE LET n == S(normalizeChars(C(name)))
         IN  IF n # "" THEN Str(n) ELSE None

\* ------------------------------------------------------------------------
\* Ingredient Splitter
\* ------------------------------------------------------------------------

\* The lookahead [^()]*\) at position p: the first parenthesis at or after
\* p is a closing one.
ClosingParenAhead(cs, p) ==
    \E j \in p..Len(cs) :
        /\ cs[j] = ")"
        /\ \A k \in p..(j - 1) : cs[k] \notin {"(", ")"}

\* The numbers k of whitespace characters \s* may take after the comma at i
\* so that the negative lookahead (?![^()]*\)) holds behind them.
SplitTakes(cs, i) ==
    {k \in 0..(SkipSpace(cs, i + 1) - (i + 1)) : ~ClosingParenAhead(cs, i + 1 + k)}

\* re.split(r',\s*(?![^()]*\))', text): the fragments between the matches,
\* scanning from i with the current fragment starting at start; \s* is
\* greedy, so a match takes the largest admissible number of spaces.
RECURSIVE reSplit(_, _, _)
reSplit(cs, start, i) ==
    IF i > Len(cs) THEN <<SubSeq(cs, start, Len(cs))>>
    ELSE IF cs[i] = "," /\ SplitTakes(cs, i) # {}
         THEN LET k == CHOOSE k \in SplitTakes(cs, i) : \A m \in SplitTakes(cs, i) : m <= k
              IN  <<SubSeq(cs, start, i - 1)>> \o reSplit(cs, i + 1 + k, i + 1 + k)
         ELSE reSplit(cs, start, i + 1)

\* The separator of line 103 as the source file spells it (three characters).
EmDashSeparator == <<"â", "€", LeftDoubleQuote>>

\* \d+(\.\d+)? at position i: the position behind the number, 0 if none.
\* The fraction is taken when a digit follows the dot.
NumberEnd(cs, i) ==
    LET d == SkipDigits(cs, i)
    IN  IF d = i THEN 0
        ELSE IF d + 1 <= Len(cs) /\ cs[d] = "." /\ isDigit(cs[d + 1])
             THEN SkipDigits(cs, d + 1)
             ELSE d

\* \d+(\.\d+)?\s*%\s*$ matches cs from position i to the end; with the
\* fraction skipped as the alternative the regex backtracks to.
PercentTailAt(cs, i) ==
    LET d == SkipDigits(cs, i)
        tailOk(n) == LET p == SkipSpace(cs, n)
                     IN  /\ p <= Len(cs)
                         /\ cs[p] = "%"
                         /\ SkipSpace(cs, p + 1) = Len(cs) + 1
    IN  /\ i <= Len(cs)
        /\ d > i
        /\ tailOk(NumberEnd(cs, i)) \/ tailOk(d)

\* \(\s*\d+(\.\d+)?\s*%\s*\)\s*$ matches cs from position i to the end
ParenPercentTailAt(cs, i) ==
    LET chk(n) == LET p == SkipSpace(cs, n)
                  IN  /\ p <= Len(cs)
                      /\ cs[p] = "%"
                      /\ LET q == SkipSpace(cs, p + 1)
                         IN  /\ q <= Len(cs)
                             /\ cs[q] = ")"
                             /\ SkipSpace(cs, q + 1) = Len(cs) + 1
        a == SkipSpace(cs, i + 1)
        d == SkipDigits(cs, a)
    IN  /\ i <= Len(cs)
        /\ cs[i] = "("
        /\ d > a
        /\ chk(NumberEnd(cs, a)) \/ chk(d)

\* re.sub(r'\s*\(\s*\d+(\.\d+)?\s*%\s*\)\s*$', '', cs): cut cs at the
\* leftmost position where the tail matches, together with the whitespace
\* before it that the leading \s* takes
CutParenPercentTail(cs) ==
    IF \E i \in 1..Len(cs) : ParenPercentTailAt(cs, i)
    THEN LET i == CHOOSE i \in 1..Len(cs) :
                     ParenPercentTailAt(cs, i) /\ \A j \in 1..(i - 1) : ~ParenPercentTailAt(cs, j)
         IN  rstrip(SubSeq(cs, 1, i - 1))
    ELSE cs

\* re.sub(r'\s*\d+(\.\d+)?\s*%\s*$', '', cs), likewise
CutPercentTail(cs) ==
    IF \E i \in 1..Len(cs) : PercentTailAt(cs, i)
    THEN LET i == CHOOSE i \in 1..Len(cs) :
                     PercentTailAt(cs, i) /\ \A j \in 1..(i - 1) : ~PercentTailAt(cs, j)
         IN  rstrip(SubSeq(cs, 1, i - 1))
    ELSE cs

\* Lines 102-106: the clean-up of one raw fragment before normalization
cleanItem(item) ==
    LET c1 == strSplit(item, <<":">>)[1]
        c2 == strSplit(c1, EmDashSeparator)[1]
        c3 == strip(CutParenPercentTail(strip(c2)))
        c4 == strip(CutPercentTail(strip(c3)))
    IN  c4

\* parse_ingredients_from_text on a str: the set of normalized names
parseText(text) ==
    LET raw == reSplit(C(text), 1, 1)
        normalized == {normalize_ingredient_name(S(cleanItem(raw[i]))) : i \in DOMAIN raw}
    IN  {n.v : n \in {m \in normalized : m.t = "str"}}

\* parse_ingredients_from_text(ingredients_text_str) on the value the
\* caller passes: a falsy value gives the empty set
parse_ingredients_from_text(x) ==
    IF ~Truthy(x) THEN {} ELSE parseText(x.v)

\* clean_tag(tag): None for a non-str, else the trimmed lower-cased tag
clean_tag(tag) ==
    IF tag.t # "str" THEN None ELSE Str(S(lower(strip(C(tag.v)))))

\* ------------------------------------------------------------------------
\* Static tables
\* ------------------------------------------------------------------------

CSV_HEADER ==
    [LineType |-> "LineType", ID |-> "ID", Name |-> "Name", Label |-> "Label",
     RelationshipType |-> "RelationshipType", FromID |-> "FromID",
     FromLabel |-> "FromLabel", ToID |-> "ToID", ToLabel |-> "ToLabel"]

KNOWN_ALLERGENS ==
    {"en:milk", "en:eggs", "en:fish", "en:crustaceans", "en:molluscs",
     "en:peanuts", "en:nuts", "en:soybeans", "en:gluten", "en:celery",
     "en:mustard", "en:sesame-seeds", "en:sulphur-dioxide-and-sulphites", "en:lupin"}

\* A keyword pattern \b...\b as the set of the literal texts it matches:
\* W for a plain word or phrase, Opt for word(suffix)?.
W(word)           == {word}
Opt(word, suffix) == {word, word \o suffix}
Pat(alts, allergen) == [alts |-> alts, allergen |-> allergen]

\* The dict in insertion order (dict.items() iterates in that order).
INGREDIENT_TO_ALLERGEN_MAP == <<
    Pat(W("milk"), "en:milk"), Pat(W("butter"), "en:milk"), Pat(W("cheese"), "en:milk"),
    Pat(W("cream"), "en:milk"), Pat(W("yogurt"), "en:milk"), Pat(Opt("casein", "ate"), "en:milk"),
    Pat(W("whey"), "en:milk"), Pat(W("lactose"), "en:milk"),
    Pat(Opt("egg", "s"), "en:eggs"), Pat(W("ovalbumin"), "en:eggs"), Pat(W("lysozyme"), "en:eggs"),
    Pat(W("albumin"), "en:eggs"),
    Pat(W("fish"), "en:fish"), Pat(W("salmon"), "en:fish"), Pat(W("tuna"), "en:fish"),
    Pat(W("cod"), "en:fish"),
    Pat(W("anchovy"), "en:fish"), Pat(W("trout"), "en:fish"), Pat(W("haddock"), "en:fish"),
    Pat(W("shrimp"), "en:crustaceans"), Pat(Opt("prawn", "s"), "en:crustaceans"),
    Pat(W("crab"), "en:crustaceans"),
    Pat(W("lobster"), "en:crustaceans"), Pat(W("crayfish"), "en:crustaceans"),
    Pat(W("krill"), "en:crustaceans"),
    Pat(Opt("mollusc", "s"), "en:molluscs"), Pat(Opt("mussel", "s"), "en:molluscs"),
    Pat(Opt("oyster", "s"), "en:molluscs"),
    Pat(W("squid"), "en:molluscs"), Pat(W("octopus"), "en:molluscs"),
    Pat(Opt("snail", "s"), "en:molluscs"),
    Pat(Opt("clam", "s"), "en:molluscs"), Pat(Opt("scallop", "s"), "en:molluscs"),
    Pat(Opt("peanut", "s"), "en:peanuts"), Pat(W("arachis"), "en:peanuts"),
    Pat(Opt("nut", "s"), "en:nuts"),
    Pat(Opt("almond", "s"), "en:nuts"), Pat(Opt("hazelnut", "s"), "en:nuts"),
    Pat(Opt("walnut", "s"), "en:nuts"),
    Pat(Opt("cashew", "s"), "en:nuts"), Pat(Opt("pecan", "s"), "en:nuts"),
    Pat(Opt("brazil nut", "s"), "en:nuts"),
    Pat(Opt("pistachio", "s"), "en:nuts"), Pat(Opt("macadamia", "s"), "en:nuts"),
    Pat(Opt("queensland nut", "s"), "en:nuts"),
    Pat(W("soy"), "en:soybeans"), Pat(W("soya"), "en:soybeans"), Pat(W("lecithin"), "en:soybeans"),
    Pat(W("tofu"), "en:soybeans"), Pat(W("edamame"), "en:soybeans"), Pat(W("miso"), "en:soybeans"),
    Pat(W("tempeh"), "en:soybeans"), Pat(W("bean curd"), "en:soybeans"),
    Pat(W("wheat"), "en:gluten"), Pat(W("gluten"), "en:gluten"), Pat(W("barley"), "en:gluten"),
    Pat(W("rye"), "en:gluten"), Pat(Opt("oat", "s"), "en:gluten"),
    Pat(W("spelt"), "en:gluten"), Pat(W("kamut"), "en:gluten"),
    Pat(W("khorasan wheat"), "en:gluten"),
    Pat(W("semolina"), "en:gluten"), Pat(W("durum"), "en:gluten"), Pat(W("couscous"), "en:gluten"),
    Pat(W("triticale"), "en:gluten"), Pat(W("flour"), "en:gluten"),
    Pat(W("celery"), "en:celery"), Pat(W("celeriac"), "en:celery"),
    Pat(W("mustard"), "en:mustard"),
    Pat(W("sesame"), "en:sesame-seeds"), Pat(W("tahini"), "en:sesame-seeds"),
    Pat(Opt("sulphite", "s"), "en:sulphur-dioxide-and-sulphites"),
    Pat(Opt("sulfite", "s"), "en:sulphur-dioxide-and-sulphites"),
    Pat(W("sulphur dioxide"), "en:sulphur-dioxide-and-sulphites"),
    Pat(W("sulfur dioxide"), "en:sulphur-dioxide-and-sulphites"),
    Pat({"E220", "E221", "E222", "E223", "E224", "E225", "E226", "E227", "E228"},
        "en:sulphur-dioxide-and-sulphites"),
    Pat(Opt("lupin", "s"), "en:lupin") >>

\* The dicts as the tuple of their keys in insertion order and the value
\* of each key.
DIETARY_PREFERENCES_KEYS == <<"vegan", "vegetarian", "gluten_free", "lactose_free">>

DIETARY_PREFERENCES_MAP ==
    [d \in Range(DIETARY_PREFERENCES_KEYS) |->
        CASE d = "vegan"        -> {"en:vegan", "vegan"}
          [] d = "vegetarian"   -> {"en:vegetarian", "vegetarian"}
          [] d = "gluten_free"  -> {"en:gluten-free", "gluten-free", "sans gluten"}
          [] d = "lactose_free" -> {"en:lactose-free", "lactose-free", "sans lactose"}]

DIETARY_CONFLICT_KEYS == <<"vegan", "vegetarian", "gluten_free", "lactose_free">>

DIETARY_CONFLICT_MAP ==
    [d \in Range(DIETARY_CONFLICT_KEYS) |->
        CASE d = "vegan"        -> {"en:non-vegan", "en:milk", "en:eggs", "en:fish",
                                    "en:crustaceans", "en:molluscs", "en:meat", "en:dairy",
                                    "en:honey", "en:collagen", "en:gelatin", "en:cheese"}
          [] d = "vegetarian"   -> {"en:non-vegetarian", "en:fish", "en:crustaceans",
                                    "en:molluscs", "en:meat", "en:collagen", "en:gelatin"}
          [] d = "gluten_free"  -> {"en:gluten"}
          [] d = "lactose_free" -> {"en:milk", "en:lactose"}]

\* re.search(keyword_pattern, ing_name, re.IGNORECASE) for a pattern
\* \b(alternatives)\b: some alternative occurs, letter case ignored, with no
\* word character right before and right after it.
re_search(alts, ing_name) ==
    LET cs == lower(C(ing_name))
    IN  \E a \in alts :
          LET p == lower(C(a))
          IN  \E i \in 1..Len(cs) :
                /\ HasAt(cs, i, p)
                /\ i = 1 \/ ~isWord(cs[i - 1])
                /\ i + Len(p) > Len(cs) \/ ~isWord(cs[i + Len(p)])

\* ------------------------------------------------------------------------
\* Source documents
\* ------------------------------------------------------------------------

Fields ==
    {"code", "product_name_en", "product_name", "generic_name_en", "generic_name",
     "ingredients_text_en", "ingredients_text", "allergens_tags", "traces_tags", "labels_tags"}

\* A document with the given code, ingredient text and tag fields and no
\* other key
Doc(code, text, allergens, traces, labels) ==
    [f \in Fields |->
        CASE f = "code"             -> code
          [] f = "ingredients_text" -> text
          [] f = "allergens_tags"   -> allergens
          [] f = "traces_tags"      -> traces
          [] f = "labels_tags"      -> labels
          [] OTHER                  -> Absent]

NoDoc == [f \in Fields |-> Absent]

\* Bound: the number of documents the cursor yields in a run
MaxDocs == 2

\* Documents whose code line 176 rejects: key missing, null, empty,
\* blank, not a str.  Their other fields would produce rows.
RejectedDocs ==
    {Doc(c, Str("milk"), List(<<Str("en:eggs")>>), List(<<Str("en:nuts")>>), List(<<Str("vegan")>>)) :
        c \in {Absent, None, Str(""), Str(" \t"), IntVal(7)}}

\* Documents with a usable code
AcceptedDocs ==
    {Doc(Str("123"), Str("wheat flour, milk, salt"), Absent, Absent, List(<<Str("en:vegan")>>)),
     Doc(Str("123"), Str("salt, oats"), List(<<Str("en:milk")>>), Absent, Absent),
     Doc(Str("456"), Str("Cheese (25.5%)"), List(<<Str("en:milk"), Str("en:meat")>>),
         List(<<Str("en:nuts")>>), Absent),
     Doc(Str("456"), Absent, Str("en:milk, EN:Eggs"), Str("en:nuts,en:foo"), None),
     Doc(Str("456"), Str("salt"), IntVal(3), List(<<Str(" en:Nuts"), IntVal(3)>>),
         Str("x,Vegan , sans gluten")),
     [Doc(Str("123"), Str("ignored"), None, Absent, List(<<Str("x"), None>>))
        EXCEPT !["ingredients_text_en"] = Str("en:sugar, peanut butter"),
               !["product_name"] = Str("Bar")],
     Doc(Str("9"), IntVal(5), List(<<Str("en:milk")>>), Absent, Absent),
     Doc(Str("77"), Str("hazelnut, oat milk"), List(<<Str("en:nuts"), Str("en:eggs")>>),
         Absent, Absent)}

Docs == RejectedDocs \cup AcceptedDocs

\* Line 191
ingredients_text_str(doc) ==
    LET en == Get(doc, "ingredients_text_en")
    IN  IF Truthy(en) THEN en ELSE GetDefault(doc, "ingredients_text", Str(""))

\* re.search(keyword_pattern k, ing_name, re.IGNORECASE), tabulated once for
\* the ingredient names the documents can give
IngredientNames ==
    UNION {parse_ingredients_from_text(ingredients_text_str(d)) :
              d \in {e \in Docs : Truthy(ingredients_text_str(e)) => ingredients_text_str(e).t = "str"}}

PatternHits(ing_name) ==
    {k \in DOMAIN INGREDIENT_TO_ALLERGEN_MAP :
        re_search(INGREDIENT_TO_ALLERGEN_MAP[k].alts, ing_name)}

KeywordHits == {<<n, PatternHits(n)>> : n \in IngredientNames}

Matches(k, ing_name) ==
    IF ing_name \in IngredientNames
    THEN k \in (CHOOSE h \in KeywordHits : h[1] = ing_name)[2]
    ELSE re_search(INGREDIENT_TO_ALLERGEN_MAP[k].alts, ing_name)

\* ------------------------------------------------------------------------
\* Rows of the output stream
\* ------------------------------------------------------------------------

Node(id, name, label) ==
    [LineType |-> "Node", ID |-> id, Name |-> name, Label |-> label,
     RelationshipType |-> "", FromID |-> "", FromLabel |-> "", ToID |-> "", ToLabel |-> ""]

Relationship(type, from, fromLabel, to, toLabel) ==
    [LineType |-> "Relationship", ID |-> "", Name |-> "", Label |-> "",
     RelationshipType |-> type, FromID |-> from, FromLabel |-> fromLabel,
     ToID |-> to, ToLabel |-> toLabel]

\* The orders in which a for loop may visit a Python set
Orders(set) ==
    {o \in [1..Cardinality(set) -> set] : \A i, j \in DOMAIN o : i # j => o[i] # o[j]}

\* Lines 159-162: the Allergen node rows, in the order the set is visited
RECURSIVE AllergenNodeRows(_, _)
AllergenNodeRows(order, written) ==
    IF order = <<>> THEN <<>>
    ELSE (IF Head(order) \notin written
          THEN <<Node(Head(order), "", "Allergen")>> ELSE <<>>)
         \o AllergenNodeRows(Tail(order), written \cup {Head(order)})

\* Lines 165-168: the DietaryPreference node rows, in key order
RECURSIVE DietNodeRows(_, _)
DietNodeRows(keys, written) ==
    IF keys = <<>> THEN <<>>
    ELSE (IF Head(keys) \notin written
          THEN <<Node(Head(keys), "", "DietaryPreference")>> ELSE <<>>)
         \o DietNodeRows(Tail(keys), written \cup {Head(keys)})

\* Mutant: the loop of lines 165-168 left out
PredefinedRows_NoDietNodes(allergenOrder, written_a, written_d) ==
    <<CSV_HEADER>> \o AllergenNodeRows(allergenOrder, written_a)

\* Lines 157-169: everything written before the record loop
PredefinedRows(allergenOrder, written_a, written_d) ==
    <<CSV_HEADER>> \o AllergenNodeRows(allergenOrder, written_a)
                   \o DietNodeRows(DIETARY_PREFERENCES_KEYS, written_d)

\* Lines 181-187: the display name of a product
product_name(doc, product_code) ==
    LET a == Get(doc, "product_name_en")
        b == Get(doc, "product_name")
        c == Get(doc, "generic_name_en")
        d == Get(doc, "generic_name")
    IN  IF Truthy(a) THEN a.v
        ELSE IF Truthy(b) THEN b.v
        ELSE IF Truthy(c) THEN c.v
        ELSE IF Truthy(d) THEN d.v
        ELSE "Product " \o product_code

\* Mutant: the pattern loop of lines 202-206 left at its first match
RECURSIVE IsAllergenRows_FirstMatch(_, _)
IsAllergenRows_FirstMatch(ing_name, k) ==
    IF k > Len(INGREDIENT_TO_ALLERGEN_MAP) THEN <<>>
    ELSE IF Matches(k, ing_name)
         THEN IF INGREDIENT_TO_ALLERGEN_MAP[k].allergen \in KNOWN_ALLERGENS
              THEN <<Relationship("IS_ALLERGEN", ing_name, "Ingredient",
                                  INGREDIENT_TO_ALLERGEN_MAP[k].allergen, "Allergen")>>
              ELSE <<>>
         ELSE IsAllergenRows_FirstMatch(ing_name, k + 1)

\* Lines 202-206: one IS_ALLERGEN row per matching pattern of the table,
\* from pattern k on, in table order
RECURSIVE IsAllergenRows(_, _)
IsAllergenRows(ing_name, k) ==
    IF k > Len(INGREDIENT_TO_ALLERGEN_MAP) THEN <<>>
    ELSE (IF /\ Matches(k, ing_name)
             /\ INGREDIENT_TO_ALLERGEN_MAP[k].allergen \in KNOWN_ALLERGENS
          THEN <<Relationship("IS_ALLERGEN", ing_name, "Ingredient",
                              INGREDIENT_TO_ALLERGEN_MAP[k].allergen, "Allergen")>>
          ELSE <<>>)
         \o IsAllergenRows(ing_name, k + 1)

\* Mutant: the break of line 214 taken at the first matching pattern,
\* whether or not its allergen is in the conflict set
RECURSIVE is_conflicting_ingredient_BreakOnMatch(_, _, _)
is_conflicting_ingredient_BreakOnMatch(ing_name, conflicting, k) ==
    IF k > Len(INGREDIENT_TO_ALLERGEN_MAP) THEN FALSE
    ELSE IF Matches(k, ing_name)
         THEN INGREDIENT_TO_ALLERGEN_MAP[k].allergen \in conflicting
         ELSE is_conflicting_ingredient_BreakOnMatch(ing_name, conflicting, k + 1)

\* Lines 209-214: the pattern loop from pattern k on; it stops (break) at
\* the first matching pattern whose allergen is in the conflict set
RECURSIVE is_conflicting_ingredient(_, _, _)
is_conflicting_ingredient(ing_name, conflicting, k) ==
    IF k > Len(INGREDIENT_TO_ALLERGEN_MAP) THEN FALSE
    ELSE IF /\ Matches(k, ing_name)
            /\ INGREDIENT_TO_ALLERGEN_MAP[k].allergen \in conflicting
         THEN TRUE
         ELSE is_conflicting_ingredient(ing_name, conflicting, k + 1)

\* Lines 208-217: the CONFLICTS_WITH_DIET rows of an ingredient, in key order
RECURSIVE ConflictRows(_, _)
ConflictRows(ing_name, keys) ==
    IF keys = <<>> THEN <<>>
    ELSE (IF is_conflicting_ingredient(ing_name, DIETARY_CONFLICT_MAP[Head(keys)], 1)
          THEN <<Relationship("CONFLICTS_WITH_DIET", ing_name, "Ingredient",
                              Head(keys), "DietaryPreference")>>
          ELSE <<>>)
         \o ConflictRows(ing_name, Tail(keys))

\* Mutant: the node row is written whatever the ledger holds
IngredientNodeRows_NoLedger(name, written) == <<Node(name, "", "Ingredient")>>

\* Mutant: the membership test of line 195 inverted
IngredientNodeRows_Inverted(name, written) ==
    IF name \in written THEN <<Node(name, "", "Ingredient")>> ELSE <<>>

\* Lines 195-197: the Ingredient node row, unless the ledger has the name
IngredientNodeRows(name, written) ==
    IF name \notin written THEN <<Node(name, "", "Ingredient")>> ELSE <<>>

\* Mutant: the two pattern loops of lines 202-217 moved into the block of
\* line 195, so that a name the ledger holds gets no rows but HAS_INGREDIENT
RECURSIVE IngredientLoopRows_FirstSightOnly(_, _, _)
IngredientLoopRows_FirstSightOnly(product_code, order, written) ==
    IF order = <<>> THEN <<>>
    ELSE LET ing_name == Head(order)
         IN  IngredientNodeRows(ing_name, written)
             \o <<Relationship("HAS_INGREDIENT", product_code, "Product", ing_name, "Ingredient")>>
             \o (IF ing_name \notin written
                 THEN IsAllergenRows(ing_name, 1) \o ConflictRows(ing_name, DIETARY_CONFLICT_KEYS)
                 ELSE <<>>)
             \o IngredientLoopRows_FirstSightOnly(product_code, Tail(order),
                                                  written \cup {ing_name})

\* Lines 194-217: the rows of the ingredient loop over the parsed names in
\* the given order; written is the ledger when the loop starts
RECURSIVE IngredientLoopRows(_, _, _)
IngredientLoopRows(product_code, order, written) ==
    IF order = <<>> THEN <<>>
    ELSE LET ing_name == Head(order)
         IN  IngredientNodeRows(ing_name, written)
             \o <<Relationship("HAS_INGREDIENT", product_code, "Product", ing_name, "Ingredient")>>
             \o IsAllergenRows(ing_name, 1)
             \o ConflictRows(ing_name, DIETARY_CONFLICT_KEYS)
             \o IngredientLoopRows(product_code, Tail(order), written \cup {ing_name})

\* The cleaned tags of a list value: clean_tag of every element, the
\* falsy results (None, "") left out
CleanedOfList(l) ==
    {clean_tag(l[i]).v : i \in {j \in DOMAIN l : Truthy(clean_tag(l[j]))}}

\* Lines 219-230
explicit_product_allergens(doc) ==
    LET allergens_tags_raw == GetDefault(doc, "allergens_tags", List(<<>>))
    IN  IF allergens_tags_raw.t = "list"
        THEN CleanedOfList(allergens_tags_raw.v) \cap KNOWN_ALLERGENS
        ELSE IF allergens_tags_raw.t = "str"
        THEN LET parts == strSplit(C(allergens_tags_raw.v), <<",">>)
             IN  CleanedOfList([i \in DOMAIN parts |-> Str(S(parts[i]))]) \cap KNOWN_ALLERGENS
        ELSE {}

\* Lines 257 and 273: [t.strip() for t in s.split(',') if t.strip()]
RECURSIVE StrippedParts(_)
StrippedParts(parts) ==
    IF parts = <<>> THEN <<>>
    ELSE (IF strip(Head(parts)) # <<>> THEN <<Str(S(strip(Head(parts))))>> ELSE <<>>)
         \o StrippedParts(Tail(parts))

\* Mutant: a str value kept as one tag instead of being split at the commas
TagList_NoSplit(value) ==
    IF value.t = "str" THEN List(<<value>>) ELSE value

TagList(value) ==
    IF value.t = "str" THEN List(StrippedParts(strSplit(C(value.v), <<",">>))) ELSE value

\* Lines 254-263
processed_traces_allergens(doc) ==
    LET traces_tags_data == TagList(GetDefault(doc, "traces_tags", List(<<>>)))
    IN  IF traces_tags_data.t = "list"
        THEN CleanedOfList(traces_tags_data.v) \cap KNOWN_ALLERGENS
        ELSE {}

\* Lines 269-279
product_dietary_labels(doc) ==
    LET labels_tags_data == TagList(GetDefault(doc, "labels_tags", List(<<>>)))
    IN  IF labels_tags_data.t = "list" THEN CleanedOfList(labels_tags_data.v) ELSE {}

\* Mutant: every synonym required instead of any (issubset for isdisjoint)
suitable_diet_prefs_for_product_AllSynonyms(doc) ==
    {d \in Range(DIETARY_PREFERENCES_KEYS) :
        DIETARY_PREFERENCES_MAP[d] \subseteq product_dietary_labels(doc)}

\* Lines 281-285
suitable_diet_prefs_for_product(doc) ==
    {d \in Range(DIETARY_PREFERENCES_KEYS) :
        DIETARY_PREFERENCES_MAP[d] \cap product_dietary_labels(doc) # {}}

\* Mutant: the comparison with allergen_name of line 236 left out
is_explained_by_ingredient_AnyAllergen(allergen_name, parsed_ingredient_names) ==
    \E ing_name \in parsed_ingredient_names :
        \E k \in DOMAIN INGREDIENT_TO_ALLERGEN_MAP : Matches(k, ing_name)

\* Lines 233-240
is_explained_by_ingredient(allergen_name, parsed_ingredient_names) ==
    \E ing_name \in parsed_ingredient_names :
        \E k \in DOMAIN INGREDIENT_TO_ALLERGEN_MAP :
            /\ Matches(k, ing_name)
            /\ INGREDIENT_TO_ALLERGEN_MAP[k].allergen = allergen_name

\* Line 243
proxy_ingredient_name(allergen_name, product_code) ==
    allergen_name \o "_source_for_" \o product_code

\* Lines 232-252: the rows of the proxy loop over the explicit allergens in
\* the given order
RECURSIVE ProxyLoopRows(_, _, _, _)
ProxyLoopRows(product_code, order, parsed_ingredient_names, written) ==
    IF order = <<>> THEN <<>>
    ELSE LET allergen_name == Head(order)
             proxy == proxy_ingredient_name(allergen_name, product_code)
         IN  IF ~is_explained_by_ingredient(allergen_name, parsed_ingredient_names)
             THEN IngredientNodeRows(proxy, written)
                  \o <<Relationship("HAS_INGREDIENT", product_code, "Product", proxy, "Ingredient"),
                       Relationship("IS_ALLERGEN", proxy, "Ingredient", allergen_name, "Allergen")>>
                  \o ProxyLoopRows(product_code, Tail(order), parsed_ingredient_names,
                                   written \cup {proxy})
             ELSE ProxyLoopRows(product_code, Tail(order), parsed_ingredient_names, written)

\* Lines 265-267 and 287-289
ProductRelRows(type, product_code, order, toLabel) ==
    [i \in DOMAIN order |-> Relationship(type, product_code, "Product", order[i], toLabel)]

\* The Ingredient identifiers of the node rows among rows
IngredientIds(rows) ==
    {rows[i].ID : i \in {j \in DOMAIN rows :
                            rows[j].LineType = "Node" /\ rows[j].Label = "Ingredient"}}

\* Lines 189-289: the rows of one accepted record, for the orders in which
\* its four sets are visited; written is written_ingredients before it
RecordRows(doc, written, ingOrder, allergenOrder, traceOrder, dietOrder) ==
    LET product_code == doc.code.v
        parsed == parse_ingredients_from_text(ingredients_text_str(doc))
        ingRows == IngredientLoopRows(product_code, ingOrder, written)
    IN  <<Node(product_code, product_name(doc, product_code), "Product")>>
        \o ingRows
        \o ProxyLoopRows(product_code, allergenOrder, parsed, written \cup IngredientIds(ingRows))
        \o ProductRelRows("MAY_CONTAIN_ALLERGEN", product_code, traceOrder, "Allergen")
        \o ProductRelRows("IS_SUITABLE_FOR", product_code, dietOrder, "DietaryPreference")

\* ------------------------------------------------------------------------
\* generate_csv_data and its caller
\* ------------------------------------------------------------------------

VARIABLES
    pc,                    \* "main", "loop", "returned", "exited"
    products_cursor,       \* the number of documents the cursor has yet to yield
    total_products,        \* count_documents(mongo_query), 0 before the call
    out,                   \* the rows written to the sink so far
    written_ingredients,
    written_allergens,
    written_diet_prefs,
    processed_count,
    missing_code_skipped,
    product_doc,           \* the document the loop read last
    doc_start,             \* Len(out) when product_doc was read
    outcome,               \* what became of product_doc
    log,                   \* the error and completion messages logged
    fn_arg,                \* the argument of a text function called on its own
    fn_result              \* its result

vars == <<pc, products_cursor, total_products, out, written_ingredients, written_allergens,
          written_diet_prefs, processed_count, missing_code_skipped, product_doc, doc_start,
          outcome, log, fn_arg, fn_result>>

\* The orders in which the loop of line 159 may visit KNOWN_ALLERGENS.  The
\* order of a Python set is unspecified; the model takes the order of the
\* source text and its reverse.
KnownAllergenListed ==
    <<"en:milk", "en:eggs", "en:fish", "en:crustaceans", "en:molluscs",
      "en:peanuts", "en:nuts", "en:soybeans", "en:gluten", "en:celery",
      "en:mustard", "en:sesame-seeds", "en:sulphur-dioxide-and-sulphites", "en:lupin">>

KnownAllergenOrders ==
    {KnownAllergenListed,
     [i \in DOMAIN KnownAllergenListed |-> KnownAllergenListed[Len(KnownAllergenListed) + 1 - i]]}

\* The identifiers of the node rows with a label among rows
NodeIds(rows, label) ==
    {rows[i].ID : i \in {j \in DOMAIN rows : rows[j].LineType = "Node" /\ rows[j].Label = label}}

\* writer.writerow for each of rows, each Node row followed by the add to
\* its ledger (lines 162, 168, 197, 247)
WriteRows(rows) ==
    /\ out' = out \o rows
    /\ written_ingredients' = written_ingredients \cup NodeIds(rows, "Ingredient")
    /\ written_allergens' = written_allergens \cup NodeIds(rows, "Allergen")
    /\ written_diet_prefs' = written_diet_prefs \cup NodeIds(rows, "DietaryPreference")

\* The handlers of lines 297-300: log the error and return normally
Caught(message) ==
    /\ log' = Append(log, message)
    /\ pc' = "returned"

\* The state before generate_csv_data is called, with n matching documents
Fresh(n) ==
    /\ products_cursor = n
    /\ total_products = 0
    /\ out = <<>>
    /\ written_ingredients = {}
    /\ written_allergens = {}
    /\ written_diet_prefs = {}
    /\ processed_count = 0
    /\ missing_code_skipped = 0
    /\ product_doc = NoDoc
    /\ doc_start = 0
    /\ outcome = "none"
    /\ log = <<>>

Init ==
    /\ pc = "main"
    /\ \E n \in 0..MaxDocs : Fresh(n)
    /\ fn_arg = ""
    /\ fn_result = {}

\* Lines 141-145: no document matches, return before the sink is opened
NoProducts ==
    /\ pc = "main"
    /\ products_cursor = 0
    /\ total_products' = 0
    /\ log' = Append(log, "INFO: No products found")
    /\ pc' = "returned"
    /\ UNCHANGED <<fn_arg, fn_result, products_cursor, out, written_ingredients, written_allergens,
                   written_diet_prefs, processed_count, missing_code_skipped, product_doc,
                   doc_start, outcome>>

\* Lines 141-172: open the sink, write the header and the predefined nodes
Begin ==
    /\ pc = "main"
    /\ products_cursor > 0
    /\ total_products' = products_cursor
    /\ \E order \in KnownAllergenOrders :
          WriteRows(PredefinedRows(order, written_allergens, written_diet_prefs))
    /\ pc' = "loop"
    /\ UNCHANGED <<fn_arg, fn_result, products_cursor, processed_count, missing_code_skipped, product_doc,
                   doc_start, outcome, log>>

\* Lines 155-169 when open() or the write after n written rows raises IOError
BeginFails ==
    /\ pc = "main"
    /\ products_cursor > 0
    /\ total_products' = products_cursor
    /\ \E order \in KnownAllergenOrders :
          LET rows == PredefinedRows(order, written_allergens, written_diet_prefs)
          IN  \E n \in 0..(Len(rows) - 1) : WriteRows(SubSeq(rows, 1, n))
    /\ Caught("ERROR: Error writing to TSV file")
    /\ UNCHANGED <<fn_arg, fn_result, products_cursor, processed_count, missing_code_skipped, product_doc,
                   doc_start, outcome>>

\* Mutant: the strip() test of line 176 left out
InvalidCode_NoStrip(product_code) ==
    IF ~Truthy(product_code) THEN TRUE ELSE product_code.t # "str"

\* Line 176
InvalidCode(product_code) ==
    IF ~Truthy(product_code) THEN TRUE
    ELSE IF product_code.t # "str" THEN TRUE
    ELSE strip(C(product_code.v)) = <<>>

\* The loop reads the next document (line 174)
ReadNext ==
    /\ pc = "loop"
    /\ products_cursor > 0
    /\ product_doc' \in Docs
    /\ products_cursor' = products_cursor - 1
    /\ doc_start' = Len(out)
    /\ UNCHANGED <<fn_arg, fn_result>>

\* Lines 175-179: a document without a usable code is skipped
SkipRecord ==
    /\ ReadNext
    /\ InvalidCode(Get(product_doc', "code"))
    /\ missing_code_skipped' = missing_code_skipped + 1
    /\ outcome' = "skipped"
    /\ UNCHANGED <<pc, total_products, out, written_ingredients, written_allergens,
                   written_diet_prefs, processed_count, log>>

\* re.split raises TypeError on a truthy ingredient text that is no str
ParseRaises(doc) ==
    Truthy(ingredients_text_str(doc)) /\ ingredients_text_str(doc).t # "str"

\* The rows an accepted document may produce: one tuple for each choice of
\* the orders in which its sets are visited
RecordRowChoices(doc, written) ==
    LET parsed == parse_ingredients_from_text(ingredients_text_str(doc))
    IN  {RecordRows(doc, written, io, ao, to, do) :
            io \in Orders(parsed),
            ao \in Orders(explicit_product_allergens(doc)),
            to \in Orders(processed_traces_allergens(doc)),
            do \in Orders(suitable_diet_prefs_for_product(doc))}

\* Lines 174-291: an accepted document is processed to its end
ProcessRecord ==
    /\ ReadNext
    /\ ~InvalidCode(Get(product_doc', "code"))
    /\ ~ParseRaises(product_doc')
    /\ \E rows \in RecordRowChoices(product_doc', written_ingredients) : WriteRows(rows)
    /\ processed_count' = processed_count + 1
    /\ outcome' = "processed"
    /\ UNCHANGED <<pc, total_products, missing_code_skipped, log>>

\* Lines 174-291 when the write after n written rows raises IOError
ProcessRecordFails ==
    /\ ReadNext
    /\ ~InvalidCode(Get(product_doc', "code"))
    /\ ~ParseRaises(product_doc')
    /\ \E rows \in RecordRowChoices(product_doc', written_ingredients) :
          \E n \in 0..(Len(rows) - 1) : WriteRows(SubSeq(rows, 1, n))
    /\ outcome' = "aborted"
    /\ Caught("ERROR: Error writing to TSV file")
    /\ UNCHANGED <<total_products, processed_count, missing_code_skipped>>

\* Lines 189-192 when the ingredient text is a truthy non-str: the Product
\* row is written, then parse_ingredients_from_text raises TypeError
ProcessRecordRaises ==
    /\ ReadNext
    /\ ~InvalidCode(Get(product_doc', "code"))
    /\ ParseRaises(product_doc')
    /\ WriteRows(<<Node(product_doc'.code.v, product_name(product_doc', product_doc'.code.v),
                        "Product")>>)
    /\ outcome' = "aborted"
    /\ Caught("ERROR: An unexpected error occurred during TSV generation")
    /\ UNCHANGED <<total_products, processed_count, missing_code_skipped>>

\* Lines 293-295: the cursor is exhausted, the sink is closed
Finish ==
    /\ pc = "loop"
    /\ products_cursor = 0
    /\ pc' = "returned"
    /\ UNCHANGED <<fn_arg, fn_result, products_cursor, total_products, out, written_ingredients, written_allergens,
                   written_diet_prefs, processed_count, missing_code_skipped, product_doc,
                   doc_start, outcome, log>>

\* Lines 319-324, __main__ after generate_csv_data has returned
MainAfterReturn ==
    /\ pc = "returned"
    /\ log' = Append(log, "INFO: TSV file generated successfully")
    /\ pc' = "exited"
    /\ UNCHANGED <<fn_arg, fn_result, products_cursor, total_products, out, written_ingredients, written_allergens,
                   written_diet_prefs, processed_count, missing_code_skipped, product_doc,
                   doc_start, outcome>>

Next ==
    \/ NoProducts
    \/ Begin
    \/ BeginFails
    \/ SkipRecord
    \/ ProcessRecord
    \/ ProcessRecordFails
    \/ ProcessRecordRaises
    \/ Finish
    \/ MainAfterReturn

Spec == Init /\ [][Next]_vars

\* ------------------------------------------------------------------------
\* parse_ingredients_from_text called on its own
\* ------------------------------------------------------------------------

\* Bound: the length of the generated ingredient texts
MaxTextLen == 4

TextAlphabet == {"a", ",", " ", "(", ")", ":"}

\* The example of the splitter's contract
NestedExample == "water, flavour (contains: sulphites, 2%)"

\* The example of the prefix handling: a locale tag before the ingredient
PrefixExample == "en:sugar"

TextInputs ==
    {S(cs) : cs \in UNION {[1..n -> TextAlphabet] : n \in 0..MaxTextLen}}
        \cup {NestedExample, PrefixExample}

ParseInit ==
    /\ pc = "call"
    /\ Fresh(0)
    /\ fn_arg \in TextInputs
    /\ fn_result = {}

CallParse ==
    /\ pc = "call"
    /\ fn_result' = parse_ingredients_from_text(Str(fn_arg))
    /\ pc' = "result"
    /\ UNCHANGED <<fn_arg, products_cursor, total_products, out, written_ingredients,
                   written_allergens, written_diet_prefs, processed_count,
                   missing_code_skipped, product_doc, doc_start, outcome, log>>

ParseNext == CallParse

SpecParse == ParseInit /\ [][ParseNext]_vars

\* normalize_ingredient_name called on its own, then on its own result
NameAlphabet == {"a", "A", " ", "(", ")", "-", "€"}

NameInputs == {S(cs) : cs \in UNION {[1..n -> NameAlphabet] : n \in 0..MaxTextLen}}

NormalizeInit ==
    /\ pc = "call"
    /\ Fresh(0)
    /\ fn_arg \in NameInputs
    /\ fn_result = {}

CallNormalize ==
    /\ pc = "call"
    /\ fn_result' = normalize_ingredient_name(fn_arg)
    /\ pc' = "normalized"
    /\ UNCHANGED <<fn_arg, products_cursor, total_products, out, written_ingredients,
                   written_allergens, written_diet_prefs, processed_count,
                   missing_code_skipped, product_doc, doc_start, outcome, log>>

\* The name the first call returned is passed to a second call
NormalizeAgain ==
    /\ pc = "normalized"
    /\ fn_result.t = "str"
    /\ fn_arg' = fn_result.v
    /\ fn_result' = normalize_ingredient_name(fn_result.v)
    /\ pc' = "renormalized"
    /\ UNCHANGED <<products_cursor, total_products, out, written_ingredients,
                   written_allergens, written_diet_prefs, processed_count,
                   missing_code_skipped, product_doc, doc_start, outcome, log>>

NormalizeNext == CallNormalize \/ NormalizeAgain

SpecNormalize == NormalizeInit /\ [][NormalizeNext]_vars

\* ------------------------------------------------------------------------
\* Properties
\* ------------------------------------------------------------------------

\* The rows written since product_doc was read, and those before
RecordOut == SubSeq(out, doc_start + 1, Len(out))
OutBefore == SubSeq(out, 1, doc_start)

Count(rows, r) == Cardinality({i \in DOMAIN rows : rows[i] = r})

\* The lower-cased trimmed tags a tag field declares: the str elements of a
\* list, the pieces between the commas of a str
DeclaredTags(value) ==
    (IF value.t = "list"
     THEN {S(lower(strip(C(value.v[i].v)))) : i \in {j \in DOMAIN value.v : value.v[j].t = "str"}}
     ELSE IF value.t = "str"
     THEN {S(lower(strip(piece))) : piece \in Range(strSplit(C(value.v), <<",">>))}
     ELSE {}) \ {""}

ParsedNames(doc) == parse_ingredients_from_text(ingredients_text_str(doc))

\* Some keyword pattern mapped to the allergen matches the ingredient name
Implies(ing_name, allergen) ==
    \E k \in DOMAIN INGREDIENT_TO_ALLERGEN_MAP :
        Matches(k, ing_name) /\ INGREDIENT_TO_ALLERGEN_MAP[k].allergen = allergen

ProxyNames(code) == {a \o "_source_for_" \o code : a \in KNOWN_ALLERGENS}

\* C1: the stream never holds two Node rows with the same identifier and
\* the same label Ingredient, Allergen or DietaryPreference.
C1_NodeRowsUnique ==
    \A i, j \in DOMAIN out :
        (/\ i # j
         /\ out[i].LineType = "Node"
         /\ out[j].LineType = "Node"
         /\ out[i].Label \in {"Ingredient", "Allergen", "DietaryPreference"}
         /\ out[i].Label = out[j].Label) => out[i].ID # out[j].ID

\* A product code read twice (two Product rows) whose proxy ingredient and
\* whose parsed ingredient each got two HAS_INGREDIENT rows
C1_Witness ==
    \E i, j \in DOMAIN out :
        /\ i < j
        /\ out[i].LineType = "Node"
        /\ out[i].Label = "Product"
        /\ out[j] = out[i]
        /\ \E p \in ProxyNames(out[i].ID) :
              Count(out, Relationship("HAS_INGREDIENT", out[i].ID, "Product", p, "Ingredient")) = 2
        /\ \E n \in IngredientNames :
              Count(out, Relationship("HAS_INGREDIENT", out[i].ID, "Product", n, "Ingredient")) = 2

\* C2: among the rows of one record, no IS_ALLERGEN row and no
\* CONFLICTS_WITH_DIET row is written twice.
C2_OneRowPerPair ==
    \A i, j \in DOMAIN RecordOut :
        (/\ i < j
         /\ RecordOut[i].RelationshipType \in {"IS_ALLERGEN", "CONFLICTS_WITH_DIET"})
        => RecordOut[i] # RecordOut[j]

\* C3: after an accepted record, each declared allergen tag of the catalog
\* has its proxy's HAS_INGREDIENT and IS_ALLERGEN rows among the record's
\* rows exactly when no ingredient parsed from the record implies that
\* allergen; a declared tag outside the catalog appears in no row.
C3_ProxyIffUnexplained ==
    outcome = "processed" =>
        LET code == product_doc.code.v
            rows == Range(RecordOut)
        IN  \A t \in DeclaredTags(product_doc.allergens_tags) :
              LET proxy == t \o "_source_for_" \o code
                  has == Relationship("HAS_INGREDIENT", code, "Product", proxy, "Ingredient") \in rows
                  isa == Relationship("IS_ALLERGEN", proxy, "Ingredient", t, "Allergen") \in rows
              IN  IF t \in KNOWN_ALLERGENS
                  THEN /\ has <=> isa
                       /\ has <=> ~\E ing \in ParsedNames(product_doc) : Implies(ing, t)
                  ELSE \A r \in rows : /\ t \notin {r.ID, r.ToID}
                                       /\ proxy \notin {r.ID, r.FromID, r.ToID}

\* An accepted record with a catalog tag that one of its ingredients
\* explains and a tag outside the catalog, read after a record that got a
\* proxy for the same allergen
C3_Witness ==
    /\ outcome = "processed"
    /\ DeclaredTags(product_doc.allergens_tags) \ KNOWN_ALLERGENS # {}
    /\ \E t \in DeclaredTags(product_doc.allergens_tags) \cap KNOWN_ALLERGENS :
          /\ \E ing \in ParsedNames(product_doc) : Implies(ing, t)
          /\ \E i \in DOMAIN OutBefore :
                /\ OutBefore[i].RelationshipType = "IS_ALLERGEN"
                /\ OutBefore[i].ToID = t
                /\ \E j \in 1..(i - 1) :
                      /\ OutBefore[j].Label = "Product"
                      /\ OutBefore[i].FromID = t \o "_source_for_" \o OutBefore[j].ID

\* A product code that is no str or holds nothing but whitespace
CodeUnusable(code) ==
    IF code.t # "str" THEN TRUE
    ELSE \A i \in 1..Len(code.v) : SubSeq(code.v, i, i) \in SpaceChars

\* C4: the step that reads a record with a missing, null, empty, blank or
\* non-str code writes no row, leaves the ledger alone, adds one to the
\* skipped counter and leaves the loop running.
C4_RejectedRecordSkipped ==
    [][(/\ products_cursor' = products_cursor - 1
        /\ CodeUnusable(product_doc'.code))
       => (/\ out' = out
           /\ written_ingredients' = written_ingredients
           /\ written_allergens' = written_allergens
           /\ written_diet_prefs' = written_diet_prefs
           /\ missing_code_skipped' = missing_code_skipped + 1
           /\ processed_count' = processed_count
           /\ log' = log
           /\ pc' = "loop")]_vars

\* A record processed to its end after a rejected one that wrote nothing
C4_Witness ==
    /\ outcome = "processed"
    /\ missing_code_skipped = 1
    /\ processed_count = 1
    /\ doc_start = 1 + Cardinality(KNOWN_ALLERGENS) + Len(DIETARY_PREFERENCES_KEYS)
    /\ Len(out) > doc_start

\* C5: every Relationship row comes after a Node row for its FromID with
\* its FromLabel and after a Node row for its ToID with its ToLabel.
C5_EndpointsWrittenBefore ==
    \A i \in DOMAIN out :
        out[i].LineType = "Relationship" =>
            /\ \E j \in 1..(i - 1) : /\ out[j].LineType = "Node"
                                     /\ out[j].ID = out[i].FromID
                                     /\ out[j].Label = out[i].FromLabel
            /\ \E j \in 1..(i - 1) : /\ out[j].LineType = "Node"
                                     /\ out[j].ID = out[i].ToID
                                     /\ out[j].Label = out[i].ToLabel

\* Rows of all five relationship types, one of them a HAS_INGREDIENT row of
\* the current record to an ingredient whose node an earlier record wrote
C5_Witness ==
    /\ {"HAS_INGREDIENT", "IS_ALLERGEN", "CONFLICTS_WITH_DIET", "MAY_CONTAIN_ALLERGEN",
        "IS_SUITABLE_FOR"} \subseteq {out[i].RelationshipType : i \in DOMAIN out}
    /\ \E i \in DOMAIN RecordOut :
          /\ RecordOut[i].RelationshipType = "HAS_INGREDIENT"
          /\ Node(RecordOut[i].ToID, "", "Ingredient") \in Range(OutBefore)

CatalogNodes ==
    {Node(a, "", "Allergen") : a \in KNOWN_ALLERGENS}
    \cup {Node(d, "", "DietaryPreference") : d \in Range(DIETARY_PREFERENCES_KEYS)}

\* A row derived from a product record
ProductDerived(r) ==
    r.LineType = "Relationship" \/ (r.LineType = "Node" /\ r.Label \in {"Product", "Ingredient"})

\* The catalog rows are the rows 2..19 of rows
CatalogFirst(rows) ==
    \A n \in CatalogNodes : \E i \in 2..(1 + Cardinality(CatalogNodes)) :
        i <= Len(rows) /\ rows[i] = n

\* C6 as claimed: every finished run, a run without eligible records
\* included, has written each of the 18 catalog rows exactly once and
\* before every product-derived row.
C6_EveryRunWritesCatalog ==
    pc \in {"returned", "exited"} =>
        /\ \A n \in CatalogNodes : Count(out, n) = 1
        /\ CatalogFirst(out)

\* C6 amended: no catalog row is ever written twice; a run that has reached
\* the record loop has written each of the 18 catalog rows exactly once, as
\* rows 2..19, before every product-derived row; a run without eligible
\* records writes nothing.
C6_CatalogOnceBeforeRecords ==
    /\ \A n \in CatalogNodes : Count(out, n) <= 1
    /\ (pc = "loop" \/ outcome # "none") => CatalogFirst(out)
    /\ \A i \in DOMAIN out :
          ProductDerived(out[i]) => (i > 1 + Cardinality(CatalogNodes) /\ CatalogFirst(out))
    /\ (pc # "main" /\ total_products = 0) => out = <<>>

\* A run over at least one accepted record that ended without an error
C6_Witness ==
    /\ pc = "exited"
    /\ processed_count >= 1
    /\ log = <<"INFO: TSV file generated successfully">>
    /\ \E i \in DOMAIN out : ProductDerived(out[i])

\* C7: once a write to the sink has failed, the caller does not report the
\* run as a successful generation.
C7_WriteFailureSurfaced ==
    \A i, j \in DOMAIN log :
        (i < j /\ log[i] = "ERROR: Error writing to TSV file")
        => log[j] # "INFO: TSV file generated successfully"

\* C8: after an accepted record, the record's rows hold exactly one
\* IS_SUITABLE_FOR row to a preference if a declared label tag is one of
\* its positive synonyms, and none otherwise.
C8_SuitableIffLabelled ==
    outcome = "processed" =>
        \A d \in Range(DIETARY_PREFERENCES_KEYS) :
            Count(RecordOut, Relationship("IS_SUITABLE_FOR", product_doc.code.v, "Product",
                                          d, "DietaryPreference"))
            = IF DeclaredTags(product_doc.labels_tags) \cap DIETARY_PREFERENCES_MAP[d] # {}
              THEN 1 ELSE 0

\* A record labelled vegan that has an ingredient conflicting with vegan
C8_Witness ==
    /\ outcome = "processed"
    /\ Relationship("IS_SUITABLE_FOR", product_doc.code.v, "Product", "vegan",
                    "DietaryPreference") \in Range(RecordOut)
    /\ \E i \in DOMAIN RecordOut :
          /\ RecordOut[i].RelationshipType = "CONFLICTS_WITH_DIET"
          /\ RecordOut[i].ToID = "vegan"

TagFields == {"allergens_tags", "traces_tags", "labels_tags"}

\* The rows of a record that come from a tag field
FieldRows(f, rows, code) ==
    CASE f = "allergens_tags" ->
            {r \in rows : {r.ID, r.FromID, r.ToID} \cap ProxyNames(code) # {}}
      [] f = "traces_tags" -> {r \in rows : r.RelationshipType = "MAY_CONTAIN_ALLERGEN"}
      [] f = "labels_tags" -> {r \in rows : r.RelationshipType = "IS_SUITABLE_FOR"}

\* The set of rows generate_csv_data writes for a document read when the
\* stream holds OutBefore
RowSet(doc) ==
    Range(CHOOSE rows \in RecordRowChoices(doc, NodeIds(OutBefore, "Ingredient")) : TRUE)

IsStr(x) == x.t = "str"

CommaFree(l) == \A i \in DOMAIN l : "," \notin Range(C(l[i].v))

\* ",".join(l)
RECURSIVE Joined(_)
Joined(l) ==
    IF l = <<>> THEN ""
    ELSE IF Len(l) = 1 THEN l[1].v
    ELSE l[1].v \o "," \o Joined(Tail(l))

\* The pieces between the commas of a str, as a list of str
Pieces(text) ==
    LET parts == strSplit(C(text), <<",">>)
    IN  [i \in DOMAIN parts |-> Str(S(parts[i]))]

\* C9: after an accepted record, for each tag field: an absent field gave
\* no row of that field; a list of comma-free tags gave the rows its
\* comma-joined str gives, and a str the rows the list of its pieces gives;
\* a value that is neither gave the rows an absent field gives, and a list
\* the rows its str elements alone give.  The only unexpected error of a run
\* comes from an ingredient text that is no str.
C9_TagShapes ==
    /\ outcome = "processed" =>
          \A f \in TagFields :
              LET v == product_doc[f]
                  rows == Range(RecordOut)
                  With(w) == RowSet([product_doc EXCEPT ![f] = w])
              IN  CASE v.t = "absent" -> FieldRows(f, rows, product_doc.code.v) = {}
                    [] v.t = "list" ->
                          /\ rows = With(List(SelectSeq(v.v, IsStr)))
                          /\ CommaFree(SelectSeq(v.v, IsStr))
                                => rows = With(Str(Joined(SelectSeq(v.v, IsStr))))
                    [] v.t = "str" -> rows = With(List(Pieces(v.v)))
                    [] OTHER -> rows = With(Absent) /\ rows = With(List(<<>>))
    /\ "ERROR: An unexpected error occurred during TSV generation" \in Range(log)
          => ingredients_text_str(product_doc).t \notin {"str", "none", "absent"}

\* An accepted record whose allergens field is a number, whose traces list
\* holds a non-str beside a tag that gave a row, and whose labels are a
\* comma-joined str that gave two rows
C9_Witness ==
    /\ outcome = "processed"
    /\ product_doc.allergens_tags.t = "int"
    /\ product_doc.traces_tags.t = "list"
    /\ \E i \in DOMAIN product_doc.traces_tags.v : product_doc.traces_tags.v[i].t # "str"
    /\ FieldRows("traces_tags", Range(RecordOut), product_doc.code.v) # {}
    /\ product_doc.labels_tags.t = "str"
    /\ Cardinality(FieldRows("labels_tags", Range(RecordOut), product_doc.code.v)) = 2

\* C10: parse_ingredients_from_text gives exactly {water, flavour} for the
\* example with a comma and a colon inside the parentheses.
C10_NestedExample ==
    (pc = "result" /\ fn_arg = NestedExample) => fn_result = {"water", "flavour"}

\* The fragments 'p:t': one colon, a non-empty prefix p before it, no comma
IsPrefixed(text) ==
    LET cs == C(text)
        i == FirstAt(cs, <<":">>)
    IN  /\ i > 1
        /\ \A j \in DOMAIN cs : (cs[j] = ":" => j = i) /\ cs[j] # ","

AfterPrefix(text) ==
    LET cs == C(text)
    IN  S(SubSeq(cs, FirstAt(cs, <<":">>) + 1, Len(cs)))

\* C11: a fragment 'p:t' gives what the ingredient text t alone gives: the
\* prefix p is dropped and t is kept.
C11_PrefixDropped ==
    (pc = "result" /\ IsPrefixed(fn_arg)) =>
        fn_result = parse_ingredients_from_text(Str(AfterPrefix(fn_arg)))

\* C12: normalizing a name that normalize_ingredient_name returned gives
\* that same name.
C12_Idempotent ==
    pc = "renormalized" => fn_result = Str(fn_arg)

\* A keyword pattern matches a normalized name as a whole word or phrase:
\* one of its texts stands in the name between the ends of the name,
\* spaces and hyphens, letter case ignored.
WholeWordIn(alts, name) ==
    LET cs == lower(C(name))
        Delimiter(i) == i < 1 \/ i > Len(cs) \/ cs[i] \in {" ", "-"}
    IN  \E a \in alts : \E i \in 1..Len(cs) :
            /\ HasAt(cs, i, lower(C(a)))
            /\ Delimiter(i - 1)
            /\ Delimiter(i + Len(a))

\* The union of the allergens of all patterns that match, for each name
\* the documents give
WholeWordAllergens ==
    [n \in IngredientNames |->
        {INGREDIENT_TO_ALLERGEN_MAP[k].allergen :
            k \in {j \in DOMAIN INGREDIENT_TO_ALLERGEN_MAP :
                      WholeWordIn(INGREDIENT_TO_ALLERGEN_MAP[j].alts, n)}}]

\* The targets of the rows of one type that the record wrote for a source
Targets(type, from) ==
    {RecordOut[i].ToID : i \in {j \in DOMAIN RecordOut :
                                  /\ RecordOut[j].RelationshipType = type
                                  /\ RecordOut[j].FromID = from}}

\* C13: the allergens of the IS_ALLERGEN rows of an ingredient are those of
\* all the patterns that match its name as a whole word or phrase, whatever
\* was written before; 'hazelnut' is matched by its own pattern only.
C13_AllergensAreUnionOfMatches ==
    outcome = "processed" =>
        \A n \in ParsedNames(product_doc) :
            /\ Targets("IS_ALLERGEN", n) = WholeWordAllergens[n]
            /\ n = "peanut butter" => Targets("IS_ALLERGEN", n) = {"en:peanuts", "en:milk"}
            /\ n = "hazelnut" =>
                  Count(RecordOut, Relationship("IS_ALLERGEN", n, "Ingredient",
                                                "en:nuts", "Allergen")) = 1

\* 'peanut butter' read a second time, its node in the ledger, its rows to
\* both allergens written again
C13_Witness ==
    /\ outcome = "processed"
    /\ "peanut butter" \in ParsedNames(product_doc)
    /\ "peanut butter" \in NodeIds(OutBefore, "Ingredient")
    /\ Targets("IS_ALLERGEN", "peanut butter") = {"en:peanuts", "en:milk"}

\* C14: an ingredient gets a CONFLICTS_WITH_DIET row to a preference exactly
\* when some pattern that matches its name maps to an allergen of the
\* preference's conflict set, whichever pattern matches first.
C14_ConflictIffSomeMatchInSet ==
    outcome = "processed" =>
        \A n \in ParsedNames(product_doc) :
            /\ Targets("CONFLICTS_WITH_DIET", n)
                 = {d \in Range(DIETARY_CONFLICT_KEYS) :
                       WholeWordAllergens[n] \cap DIETARY_CONFLICT_MAP[d] # {}}
            /\ n = "milk" => Targets("CONFLICTS_WITH_DIET", n) = {"vegan", "lactose_free"}
            /\ n = "wheat flour" => Targets("CONFLICTS_WITH_DIET", n) = {"gluten_free"}

\* 'oat milk': its first matching pattern maps to en:milk, which is not in
\* the conflict set of gluten_free, a later one to en:gluten; next to it an
\* ingredient with an allergen and no conflict
C14_Witness ==
    /\ outcome = "processed"
    /\ {"oat milk", "hazelnut"} \subseteq ParsedNames(product_doc)
    /\ Targets("CONFLICTS_WITH_DIET", "oat milk") = {"vegan", "gluten_free", "lactose_free"}
    /\ Targets("IS_ALLERGEN", "hazelnut") # {}
    /\ Targets("CONFLICTS_WITH_DIET", "hazelnut") = {}

\* C15: every catalog allergen a processed record declares is the target
\* of an IS_ALLERGEN row, among the rows of that record, from an ingredient
\* that the record's product has a HAS_INGREDIENT row to.
C15_DeclaredAllergenCovered ==
    outcome = "processed" =>
        \A a \in DeclaredTags(product_doc.allergens_tags) \cap KNOWN_ALLERGENS :
            \E i, j \in DOMAIN RecordOut :
                /\ RecordOut[i] = Relationship("HAS_INGREDIENT", product_doc.code.v, "Product",
                                               RecordOut[i].ToID, "Ingredient")
                /\ RecordOut[j] = Relationship("IS_ALLERGEN", RecordOut[i].ToID, "Ingredient",
                                               a, "Allergen")

\* A record read a second time that declares one allergen a parsed
\* ingredient explains (no proxy) and one that gets a proxy
C15_Witness ==
    /\ outcome = "processed"
    /\ \E i \in DOMAIN OutBefore :
          OutBefore[i].LineType = "Node" /\ OutBefore[i].Label = "Product"
                                        /\ OutBefore[i].ID = product_doc.code.v
    /\ \E a, b \in DeclaredTags(product_doc.allergens_tags) \cap KNOWN_ALLERGENS :
          /\ \E n \in ParsedNames(product_doc) :
                /\ n \in NodeIds(OutBefore, "Ingredient")
                /\ a \in Targets("IS_ALLERGEN", n)
          /\ proxy_ingredient_name(a, product_doc.code.v) \notin NodeIds(out, "Ingredient")
          /\ b \in Targets("IS_ALLERGEN", proxy_ingredient_name(b, product_doc.code.v))

====
